---- MODULE Spec2Model ----
(***************************************************************************)
(* The grievance portal backend (src/unnamed/part_000): two MongoDB        *)
(* collections, users and complaints, and the Express handlers over them.  *)
(* Every await of a handler is one step; the document store is the only    *)
(* shared state.  A store call may fail (fault = TRUE); what the handler   *)
(* answers is recorded in resp.                                            *)
(*                                                                         *)
(* `unique: true` on a schema path is modelled as the unique index that    *)
(* mongoose builds for it: a write that would give two documents the same  *)
(* value on the path is rejected with a duplicate-key error.               *)
(*                                                                         *)
(* No handler touches both collections, so each is explored on its own:    *)
(*   Spec         the complaint routes, one request at a time              *)
(*   SpecFile     POST /api/complaints alone, one request at a time        *)
(*   SpecRace     POST /api/complaints alone, two requests interleaved     *)
(*   SpecUsers    seedUsers() and the user routes, interleaved             *)
(*   SpecPromote  promote-all with register and delete interleaved         *)
(***************************************************************************)
EXTENDS Naturals, Sequences, FiniteSets

VARIABLES
    users,       \* the users collection, in insertion (natural) order
    complaints,  \* the complaints collection, in insertion (natural) order
    seed,        \* position of seedUsers(): [pc, idx]
    prom,        \* position of the promote-all handler: [pc, ops], and as
                 \* history the collection it read (seen)
    handler,     \* position of each POST /api/complaints handler: [pc, body, count]
    resp,        \* the last answer a handler gave: [op, code, fault, id, count]
    issued       \* history: the ids POST /api/complaints has answered with so far

vars == <<users, complaints, seed, prom, handler, resp, issued>>

(***************************************************************************)
(* Bounds of the model.                                                    *)
(***************************************************************************)
MaxComplaints == 3      \* stored and in-flight complaints
MaxFiled == 11          \* stored complaints, the file-only specification
MaxUsers == 3           \* stored users, when a registration is accepted

Handlers == {"h1", "h2"}     \* concurrent POST /api/complaints requests

(***************************************************************************)
(* Values.                                                                 *)
(***************************************************************************)
NoValue == "<undefined>"     \* a schema path the document does not carry
Uncaught == 0                \* no answer: the rejection left the handler

Digit == <<"0", "1", "2", "3", "4", "5", "6", "7", "8", "9">>

\* Number.prototype.toString(): the decimal digits, most significant first.
RECURSIVE toString(_)
toString(n) ==
    IF n < 10 THEN Digit[n + 1]
    ELSE toString(n \div 10) \o Digit[(n % 10) + 1]

Indices(docs) == 1..Len(docs)

First(S) == CHOOSE i \in S : \A j \in S : i <= j

Remove(docs, i) == [k \in 1..(Len(docs) - 1) |-> IF k < i THEN docs[k] ELSE docs[k + 1]]

\* An update document applied by findOneAndUpdate: mongoose wraps it in $set,
\* so the paths it names are replaced and the others are kept.
ApplyPatch(doc, patch) ==
    [f \in DOMAIN doc |-> IF f \in DOMAIN patch THEN patch[f] ELSE doc[f]]

Answer(op, code, fault) ==
    [op |-> op, code |-> code, fault |-> fault, id |-> NoValue, count |-> 0]

(***************************************************************************)
(* Complaints.                                                             *)
(***************************************************************************)
ComplaintPaths == {"id", "status", "assignedTo", "history", "chat"}
ComplaintArrayPaths == {"history", "chat"}

\* new Complaint(fields): the schema's paths; an Array path defaults to [].
NewComplaint(fields) ==
    [f \in ComplaintPaths |->
        IF f \in DOMAIN fields THEN fields[f]
        ELSE IF f \in ComplaintArrayPaths THEN <<>> ELSE NoValue]

\* Mutant of SpreadWithId: { id: newId, ...req.body }, the caller's id wins.
SpreadBodyLast(body, newId) ==
    [f \in (DOMAIN body) \cup {"id"} |-> IF f \in DOMAIN body THEN body[f] ELSE newId]

\* { ...req.body, id: newId }
SpreadWithId(body, newId) ==
    [f \in (DOMAIN body) \cup {"id"} |-> IF f = "id" THEN newId ELSE body[f]]

\* (count + 1).toString()
NewId(count) == toString(count + 1)

\* Mutant of ComplaintIdFree: the schema path without `unique: true`.
ComplaintIdUnchecked(docs, id, except) == TRUE

\* The unique index on Complaint.id: no other stored document has this id.
ComplaintIdFree(docs, id, except) ==
    \A i \in Indices(docs) \ except : docs[i].id # id

ComplaintMatches(docs, id) == {i \in Indices(docs) : docs[i].id = id}

HandlerIdle == [pc |-> "idle", body |-> [status |-> NoValue], count |-> 0]

InFlight == {h \in Handlers : handler[h].pc = "counted"}

\* POST /api/complaints, up to the await of countDocuments().
FileCount(h, body, fault) ==
    /\ handler[h].pc = "idle"
    /\ IF fault
       THEN /\ resp' = Answer("file_complaint", 500, TRUE)
            /\ UNCHANGED handler
       ELSE /\ handler' = [handler EXCEPT ![h] =
                              [pc |-> "counted", body |-> body, count |-> Len(complaints)]]
            /\ UNCHANGED resp
    /\ UNCHANGED <<users, complaints, seed, prom, issued>>

\* POST /api/complaints, from the new id to the answer.
FileSave(h, fault) ==
    /\ handler[h].pc = "counted"
    /\ LET newId == NewId(handler[h].count)
           nc == NewComplaint(SpreadWithId(handler[h].body, newId))
       IN  IF fault
           THEN /\ resp' = Answer("file_complaint", 500, TRUE)
                /\ UNCHANGED <<complaints, issued>>
           ELSE IF ~ComplaintIdFree(complaints, nc.id, {})
           THEN /\ resp' = Answer("file_complaint", 500, FALSE)
                /\ UNCHANGED <<complaints, issued>>
           ELSE /\ complaints' = Append(complaints, nc)
                /\ resp' = [Answer("file_complaint", 200, FALSE) EXCEPT !.id = newId]
                /\ issued' = issued \cup {newId}
    /\ handler' = [handler EXCEPT ![h] = HandlerIdle]
    /\ UNCHANGED <<users, seed, prom>>

\* Mutant of UpdatedComplaints: the update document replaces the stored one
\* (findOneAndReplace), so the paths it does not name are reset.
ReplacedComplaints(docs, id, patch) ==
    LET m == ComplaintMatches(docs, id)
    IN  IF m = {} THEN docs
        ELSE [docs EXCEPT ![First(m)] = NewComplaint(patch)]

\* What findOneAndUpdate({id}, patch) leaves in the collection.
UpdatedComplaints(docs, id, patch) ==
    LET m == ComplaintMatches(docs, id)
    IN  IF m = {} THEN docs
        ELSE [docs EXCEPT ![First(m)] = ApplyPatch(docs[First(m)], patch)]

\* Whether findOneAndUpdate({id}, patch) throws the duplicate-key error.
UpdateComplaintThrows(docs, id, patch) ==
    LET m == ComplaintMatches(docs, id)
    IN  /\ m # {}
        /\ "id" \in DOMAIN patch
        /\ ~ComplaintIdFree(docs, patch.id, {First(m)})

\* PUT /api/complaints/:id
UpdateComplaint(id, patch, fault) ==
    /\ IF fault \/ UpdateComplaintThrows(complaints, id, patch)
       THEN /\ resp' = Answer("update_complaint", 500, fault)
            /\ UNCHANGED complaints
       ELSE /\ complaints' = UpdatedComplaints(complaints, id, patch)
            /\ resp' = Answer("update_complaint", 200, FALSE)
    /\ UNCHANGED <<users, seed, prom, handler, issued>>

\* What findOneAndDelete({id}) leaves in the collection.
WithoutComplaint(docs, id) ==
    LET m == ComplaintMatches(docs, id)
    IN  IF m = {} THEN docs ELSE Remove(docs, First(m))

\* DELETE /api/complaints/:id
DeleteComplaint(id, fault) ==
    /\ IF fault
       THEN /\ resp' = Answer("delete_complaint", 500, TRUE)
            /\ UNCHANGED complaints
       ELSE /\ complaints' = WithoutComplaint(complaints, id)
            /\ resp' = Answer("delete_complaint", 200, FALSE)
    /\ UNCHANGED <<users, seed, prom, handler, issued>>

\* GET /api/complaints: no try/catch around the await.
ListComplaints(fault) ==
    /\ resp' = IF fault THEN Answer("list_complaints", Uncaught, TRUE)
               ELSE [Answer("list_complaints", 200, FALSE) EXCEPT !.count = Len(complaints)]
    /\ UNCHANGED <<users, complaints, seed, prom, handler, issued>>

(***************************************************************************)
(* Users.                                                                  *)
(***************************************************************************)
UserPaths == {"id", "role", "email", "pass", "year"}

\* new User(fields), with the _id it is given (oid).
NewUser(fields, oid) ==
    [f \in UserPaths \cup {"oid"} |->
        IF f = "oid" THEN oid
        ELSE IF f \in DOMAIN fields THEN fields[f] ELSE NoValue]

\* An _id no stored document and no pending bulk operation carries.
FreshOid ==
    LET used == {users[i].oid : i \in Indices(users)}
                  \cup {prom.ops[k].oid : k \in Indices(prom.ops)}
    IN  CHOOSE n \in 1..(Cardinality(used) + 1) : n \notin used

\* Mutant of EmailFree: the schema path without `unique: true`.
EmailUnchecked(docs, email, except) == TRUE

\* The unique index on User.email: no other stored document has this email
\* (a document without the path is indexed under null, like any other value).
EmailFree(docs, email, except) ==
    \A i \in Indices(docs) \ except : docs[i].email # email

\* const demoUsers = [...]
demoUsers ==
    << [role |-> "teacher", email |-> "teacher1@example.com", pass |-> "pass123", id |-> "T01"],
       [role |-> "teacher", email |-> "teacher2@example.com", pass |-> "pass123", id |-> "T02"],
       [role |-> "hod", email |-> "ecedepartment100@gmail.com", pass |-> "Secure@123", id |-> "H01"] >>

SeedStart == [pc |-> "count", idx |-> 0]

PromIdle == [pc |-> "idle", ops |-> <<>>, seen |-> <<>>]

\* seedUsers(), up to the await of countDocuments() and the test of the count.
\* Nothing awaits or catches the promise seedUsers() returns.
SeedCount(fault) ==
    /\ seed.pc = "count"
    /\ seed' = IF fault THEN [pc |-> "uncaught", idx |-> 0]
               ELSE IF Len(users) = 0 THEN [pc |-> "insert", idx |-> 1]
               ELSE [pc |-> "done", idx |-> 0]
    /\ UNCHANGED <<users, complaints, prom, handler, resp, issued>>

\* User.insertMany(demoUsers): ordered, one document after the other, each
\* on its own; the first error ends it and rejects the promise.
SeedInsert(fault) ==
    /\ seed.pc = "insert"
    /\ LET doc == NewUser(demoUsers[seed.idx], FreshOid)
       IN  IF fault \/ ~EmailFree(users, doc.email, {})
           THEN /\ seed' = [pc |-> "uncaught", idx |-> seed.idx]
                /\ UNCHANGED users
           ELSE /\ users' = Append(users, doc)
                /\ seed' = IF seed.idx = Len(demoUsers)
                           THEN [pc |-> "done", idx |-> 0]
                           ELSE [seed EXCEPT !.idx = seed.idx + 1]
    /\ UNCHANGED <<complaints, prom, handler, resp, issued>>

\* POST /api/register: every error is answered 400.
Register(body, fault) ==
    /\ LET newUser == NewUser(body, FreshOid)
       IN  IF fault \/ ~EmailFree(users, newUser.email, {})
           THEN /\ resp' = Answer("register", 400, fault)
                /\ UNCHANGED users
           ELSE /\ users' = Append(users, newUser)
                /\ resp' = Answer("register", 200, FALSE)
    /\ UNCHANGED <<complaints, seed, prom, handler, issued>>

UserMatches(docs, id) == {i \in Indices(docs) : docs[i].id = id}

\* What findOneAndUpdate({id}, patch) leaves in the collection.
UpdatedUsers(docs, id, patch) ==
    LET m == UserMatches(docs, id)
    IN  IF m = {} THEN docs
        ELSE [docs EXCEPT ![First(m)] = ApplyPatch(docs[First(m)], patch)]

\* Whether findOneAndUpdate({id}, patch) throws the duplicate-key error.
UpdateUserThrows(docs, id, patch) ==
    LET m == UserMatches(docs, id)
    IN  /\ m # {}
        /\ "email" \in DOMAIN patch
        /\ ~EmailFree(docs, patch.email, {First(m)})

\* PUT /api/users/:id
UpdateUser(id, patch, fault) ==
    /\ IF fault \/ UpdateUserThrows(users, id, patch)
       THEN /\ resp' = Answer("update_user", 500, fault)
            /\ UNCHANGED users
       ELSE /\ users' = UpdatedUsers(users, id, patch)
            /\ resp' = Answer("update_user", 200, FALSE)
    /\ UNCHANGED <<complaints, seed, prom, handler, issued>>

\* What findOneAndDelete({email}) leaves in the collection.
WithoutUser(docs, email) ==
    LET m == {i \in Indices(docs) : docs[i].email = email}
    IN  IF m = {} THEN docs ELSE Remove(docs, First(m))

\* DELETE /api/users/:email
DeleteUser(email, fault) ==
    /\ IF fault
       THEN /\ resp' = Answer("delete_user", 500, TRUE)
            /\ UNCHANGED users
       ELSE /\ users' = WithoutUser(users, email)
            /\ resp' = Answer("delete_user", 200, FALSE)
    /\ UNCHANGED <<complaints, seed, prom, handler, issued>>

\* GET /api/users: no try/catch around the await.
ListUsers(fault) ==
    /\ resp' = IF fault THEN Answer("list_users", Uncaught, TRUE)
               ELSE [Answer("list_users", 200, FALSE) EXCEPT !.count = Len(users)]
    /\ UNCHANGED <<users, complaints, seed, prom, handler, issued>>

\* POST /api/login: findOne({email, pass}), the user or 401.
Login(email, pass, fault) ==
    /\ LET m == {i \in Indices(users) : users[i].email = email /\ users[i].pass = pass}
       IN  resp' = IF fault THEN Answer("login", 500, TRUE)
                   ELSE IF m = {} THEN Answer("login", 401, FALSE)
                   ELSE [Answer("login", 200, FALSE) EXCEPT !.id = users[First(m)].id]
    /\ UNCHANGED <<users, complaints, seed, prom, handler, issued>>

\* Mutant of newYear: a graduate is promoted back to the first year.
newYearWraps(year) ==
    IF year = "1" THEN "2"
    ELSE IF year = "2" THEN "3"
    ELSE IF year = "3" THEN "4"
    ELSE IF year = "4" THEN "Graduated"
    ELSE IF year = "Graduated" THEN "1"
    ELSE year

\* let newYear = student.year; if ... else if ...
newYear(year) ==
    IF year = "1" THEN "2"
    ELSE IF year = "2" THEN "3"
    ELSE IF year = "3" THEN "4"
    ELSE IF year = "4" THEN "Graduated"
    ELSE year

\* students.map(...).filter(op => op !== null): an updateOne by _id for every
\* student whose year changes.
RECURSIVE bulkOps(_)
bulkOps(students) ==
    IF students = <<>> THEN <<>>
    ELSE LET student == Head(students)
             op == IF newYear(student.year) # student.year
                   THEN << [oid |-> student.oid, year |-> newYear(student.year)] >>
                   ELSE <<>>
         IN  op \o bulkOps(Tail(students))

\* updateOne({_id}, {year}) for the first n operations, in order.
RECURSIVE Written(_, _, _)
Written(docs, ops, n) ==
    IF n = 0 THEN docs
    ELSE LET done == Written(docs, ops, n - 1)
         IN  [i \in Indices(done) |->
                 IF done[i].oid = ops[n].oid
                 THEN [done[i] EXCEPT !.year = ops[n].year]
                 ELSE done[i]]

IsStudent(user) == user.role = "student"

\* POST /api/users/promote-all, up to the await of bulkWrite(); with no
\* operation to write, it answers at once.
PromoteScan(fault) ==
    /\ prom.pc = "idle"
    /\ LET ops == bulkOps(SelectSeq(users, IsStudent))
       IN  IF fault
           THEN /\ resp' = Answer("promote_all", 500, TRUE)
                /\ UNCHANGED prom
           ELSE IF Len(ops) > 0
           THEN /\ prom' = [pc |-> "write", ops |-> ops, seen |-> users]
                /\ UNCHANGED resp
           ELSE /\ resp' = Answer("promote_all", 200, FALSE)
                /\ UNCHANGED prom
    /\ UNCHANGED <<users, complaints, seed, handler, issued>>

\* POST /api/users/promote-all, from bulkWrite() to the answer. A fault ends
\* the ordered bulk write after the operations already applied.
PromoteWrite(fault, applied) ==
    /\ prom.pc = "write"
    /\ IF fault
       THEN /\ applied < Len(prom.ops)
            /\ users' = Written(users, prom.ops, applied)
            /\ resp' = Answer("promote_all", 500, TRUE)
       ELSE /\ applied = Len(prom.ops)
            /\ users' = Written(users, prom.ops, applied)
            /\ resp' = [Answer("promote_all", 200, FALSE) EXCEPT !.count = Len(prom.ops)]
    /\ prom' = PromIdle
    /\ UNCHANGED <<complaints, seed, handler, issued>>

(***************************************************************************)
(* Requests the complaint specifications draw from.                        *)
(***************************************************************************)
FileBodies ==
    { [status |-> "Pending", history |-> <<"filed">>],
      [id |-> "7", status |-> "Pending"] }

ComplaintPatches ==
    { [status |-> "Resolved", assignedTo |-> "T01"],
      [chat |-> <<"hello">>],
      [id |-> "9"] }

ComplaintIds == {"1", "2", "9"}

Init ==
    /\ users = <<>>
    /\ complaints = <<>>
    /\ seed = SeedStart
    /\ prom = PromIdle
    /\ handler = [h \in Handlers |-> HandlerIdle]
    /\ resp = Answer("none", 200, FALSE)
    /\ issued = {}

\* The complaint store with one request at a time.
Next ==
    \/ \E body \in FileBodies, fault \in BOOLEAN :
          /\ Len(complaints) < MaxComplaints
          /\ FileCount("h1", body, fault)
    \/ \E fault \in BOOLEAN : FileSave("h1", fault)
    \/ \E id \in ComplaintIds, patch \in ComplaintPatches, fault \in BOOLEAN :
          /\ handler["h1"].pc = "idle"
          /\ UpdateComplaint(id, patch, fault)
    \/ \E id \in ComplaintIds, fault \in BOOLEAN :
          /\ handler["h1"].pc = "idle"
          /\ DeleteComplaint(id, fault)
    \/ \E fault \in BOOLEAN :
          /\ handler["h1"].pc = "idle"
          /\ ListComplaints(fault)

Spec == Init /\ [][Next]_vars

\* Filing only, one request at a time, from the empty store.
NextFile ==
    \/ \E body \in FileBodies, fault \in BOOLEAN :
          /\ Len(complaints) < MaxFiled
          /\ FileCount("h1", body, fault)
    \/ \E fault \in BOOLEAN : FileSave("h1", fault)

SpecFile == Init /\ [][NextFile]_vars

\* Filing only, under concurrent requests, from the empty store.
NextRace ==
    \/ \E h \in Handlers, body \in FileBodies, fault \in BOOLEAN :
          /\ Len(complaints) + Cardinality(InFlight) < MaxComplaints
          /\ FileCount(h, body, fault)
    \/ \E h \in Handlers, fault \in BOOLEAN : FileSave(h, fault)

SpecRace == Init /\ [][NextRace]_vars

(***************************************************************************)
(* Requests the user specifications draw from.                             *)
(***************************************************************************)
RegisterBodies ==
    { [id |-> "S1", email |-> "s1@x.com", role |-> "student", pass |-> "pw", year |-> "1"],
      [id |-> "S1", email |-> "teacher2@example.com", role |-> "student", pass |-> "pw", year |-> "1"],
      [id |-> "S2", role |-> "student", pass |-> "pw", year |-> "1"] }

UserPatches == { [email |-> "teacher1@example.com"], [id |-> "T02"] }

UserIds == {"S1", "T01", "S9"}

UserEmails == {"s1@x.com", "teacher1@example.com", "nobody@x.com"}

Passwords == {"pw", "pass123"}

\* The user store: the seed on start, and the account requests.
NextUsers ==
    \/ \E fault \in BOOLEAN : ListUsers(fault)
    \/ \E fault \in BOOLEAN : SeedCount(fault)
    \/ \E fault \in BOOLEAN : SeedInsert(fault)
    \/ \E body \in RegisterBodies, fault \in BOOLEAN :
          /\ Len(users) < MaxUsers
          /\ Register(body, fault)
    \/ \E id \in UserIds, patch \in UserPatches, fault \in BOOLEAN :
          UpdateUser(id, patch, fault)
    \/ \E email \in UserEmails, fault \in BOOLEAN : DeleteUser(email, fault)
    \/ \E email \in UserEmails, pass \in Passwords, fault \in BOOLEAN :
          Login(email, pass, fault)

SpecUsers == Init /\ [][NextUsers]_vars

StudentBodies ==
    { [id |-> "S1", email |-> "s1@x.com", role |-> "student", pass |-> "pw", year |-> "1"],
      [id |-> "S2", email |-> "s2@x.com", role |-> "student", pass |-> "pw", year |-> "3"],
      [id |-> "S3", email |-> "s3@x.com", role |-> "student", pass |-> "pw", year |-> "Graduated"],
      [id |-> "S4", email |-> "s3@x.com", role |-> "student", pass |-> "pw"],
      [id |-> "T09", email |-> "s2@x.com", role |-> "teacher", pass |-> "pw", year |-> "1"] }

StudentEmails == {"s2@x.com"}

\* The promotion job among the account requests.
NextPromote ==
    \/ \E fault \in BOOLEAN : PromoteScan(fault)
    \/ \E fault \in BOOLEAN, applied \in 0..MaxUsers : PromoteWrite(fault, applied)
    \/ \E body \in StudentBodies, fault \in BOOLEAN :
          /\ Len(users) < MaxUsers
          /\ Register(body, fault)
    \/ \E email \in StudentEmails, fault \in BOOLEAN : DeleteUser(email, fault)

SpecPromote == Init /\ [][NextPromote]_vars

(***************************************************************************)
(* Properties of the complaint store.                                      *)
(***************************************************************************)
\* The decimal numerals, written out.
Decimal ==
    <<"1", "2", "3", "4", "5", "6", "7", "8", "9", "10", "11", "12", "13", "14", "15">>

StoredIdsDistinct ==
    \A i, j \in Indices(complaints) : complaints[i].id = complaints[j].id => i = j

\* A step in which handler h of POST /api/complaints gives its answer, the store
\* having answered the save.
Answers(h) ==
    /\ handler[h].pc = "counted"
    /\ handler'[h].pc = "idle"
    /\ ~resp'.fault

\* The id handler h has computed is the id of a stored complaint.
Collides(h) ==
    \E i \in Indices(complaints) : complaints[i].id = Decimal[handler[h].count + 1]

\* C2 (as claimed): a newly filed complaint's id differs from the id of every
\* complaint filed earlier, deleted ones included, and no two stored complaints
\* share an id.
C2_IdsNeverReused ==
    /\ []StoredIdsDistinct
    /\ [][\A h \in Handlers :
             (Answers(h) /\ resp'.code = 200) => resp'.id \notin issued]_vars

\* C3 (as claimed): with no store fault, a file_complaint call answers success and
\* adds exactly one complaint, which carries the id the server allocated.
C3_FileNeverFails ==
    [][\A h \in Handlers :
          Answers(h) =>
             /\ resp'.code = 200
             /\ Len(complaints') = Len(complaints) + 1
             /\ SubSeq(complaints', 1, Len(complaints)) = complaints
             /\ complaints'[Len(complaints')].id = resp'.id]_vars

C5_SequentialIds ==
    /\ \A k \in Indices(complaints) : complaints[k].id = Decimal[k]
    /\ (resp.op = "file_complaint" /\ resp.code = 200) =>
           /\ complaints # <<>>
           /\ resp.id = Decimal[Len(complaints)]

\* Ten complaints filed, the tenth by the request that carried its own id "7".
C5_Witness ==
    /\ Len(complaints) = 10
    /\ resp.op = "file_complaint"
    /\ resp.code = 200
    /\ complaints[10].history = <<>>

\* C6: an update whose id matches no complaint answers success as a matching one
\* does and changes nothing; one whose id matches changes no path that the patch
\* does not name, no other complaint, and creates none.
C6_UpdateFrame ==
    [][\A id \in ComplaintIds, patch \in ComplaintPatches :
          (resp'.op = "update_complaint" /\ UpdateComplaint(id, patch, FALSE)) =>
             IF ComplaintMatches(complaints, id) = {}
             THEN /\ resp' = Answer("update_complaint", 200, FALSE)
                  /\ complaints' = complaints
             ELSE /\ Len(complaints') = Len(complaints)
                  /\ \A i \in Indices(complaints) :
                        /\ \A f \in ComplaintPaths \ DOMAIN patch :
                              complaints'[i][f] = complaints[i][f]
                        /\ complaints[i].id # id => complaints'[i] = complaints[i]]_vars

\* A matching update has set status and assignedTo and kept the history.
C6_Witness ==
    /\ resp = Answer("update_complaint", 200, FALSE)
    /\ \E i \in Indices(complaints) :
          /\ complaints[i].status = "Resolved"
          /\ complaints[i].assignedTo = "T01"
          /\ complaints[i].history = <<"filed">>

(***************************************************************************)
(* Properties of the user store.                                           *)
(***************************************************************************)
EmailsDistinct ==
    \A i, j \in Indices(users) : users[i].email = users[j].email => i = j

\* C1: no two stored users hold the same email, and a registration whose email
\* a stored user holds is answered the 400 error and leaves the collection as
\* it was.
C1_EmailUnique ==
    /\ []EmailsDistinct
    /\ [][\A body \in RegisterBodies :
             ( /\ resp'.op = "register"
               /\ "email" \in DOMAIN body
               /\ \E i \in Indices(users) : users[i].email = body.email
               /\ Register(body, FALSE) ) =>
                /\ resp' = Answer("register", 400, FALSE)
                /\ users' = users]_vars

\* A registration has been refused while a user holds the email "s1@x.com".
C1_Witness ==
    /\ resp = Answer("register", 400, FALSE)
    /\ \E i \in Indices(users) : users[i].email = "s1@x.com"

\* The year progression, as a table.
Progression(year) ==
    CASE year = "1" -> "2"
      [] year = "2" -> "3"
      [] year = "3" -> "4"
      [] year = "4" -> "Graduated"
      [] OTHER -> year

Promoted(docs) ==
    [i \in Indices(docs) |->
        IF docs[i].role = "student"
        THEN [docs[i] EXCEPT !.year = Progression(docs[i].year)]
        ELSE docs[i]]

Changed(before, after) == {i \in Indices(before) : after[i].year # before[i].year}

\* C7: a run of promote-all during which the collection is not changed by another
\* operation moves every student's year one step along 1, 2, 3, 4, Graduated,
\* leaves every other user as it was, and answers the number of users whose year
\* changed.
C7_PromoteRun ==
    [][ /\ (PromoteScan(FALSE) /\ prom'.pc = "idle") =>
              /\ Promoted(users) = users
              /\ users' = users
              /\ resp' = Answer("promote_all", 200, FALSE)
        /\ (PromoteWrite(FALSE, Len(prom.ops)) /\ prom.seen = users) =>
              /\ users' = Promoted(users)
              /\ resp'.code = 200
              /\ resp'.count = Cardinality(Changed(users, users')) ]_vars

\* A run has changed two of three users: a graduate is stored and was left alone.
C7_Witness ==
    /\ resp = [Answer("promote_all", 200, FALSE) EXCEPT !.count = 2]
    /\ Len(users) = 3
    /\ \E i \in Indices(users) : users[i].year = "Graduated" /\ users[i].id = "S3"
    /\ \E i \in Indices(users) : users[i].year = "4"

\* C8 (as claimed): the seed inserts its first demo account only into an empty
\* collection, and a seed that counts a user inserts nothing.
C8_SeedOnlyIntoEmpty ==
    [][\A fault \in BOOLEAN :
          /\ (SeedInsert(fault) /\ seed.idx = 1 /\ users' # users) => users = <<>>
          /\ (SeedCount(fault) /\ users # <<>>) => seed'.pc # "insert"]_vars

\* C9 (as claimed): a store fault is answered as an error by the operation it
\* happened in, and none leaves seedUsers() or a handler uncaught.
C9_FaultsCaught ==
    /\ resp.fault => resp.code \in {400, 500}
    /\ seed.pc # "uncaught"

\* C10 (as claimed): no two stored users share an id.
C10_UserIdsDistinct ==
    \A i, j \in Indices(users) : users[i].id = users[j].id => i = j

====
